---- MODULE Spec2Model ----
(***************************************************************************)
(* A model of the yt-dlp GUI front-end: the YtDlpDownloader worker         *)
(* (src/main.py) and the YtDlpGui window that receives its notifications   *)
(* through queued Qt signals (src/gui.py).                                 *)
(*                                                                         *)
(* Python strings that the code takes apart (file paths, the URL field)    *)
(* are sequences of one-character strings; messages that the code only     *)
(* builds and passes on are TLA+ strings.  None is the value None.         *)
(***************************************************************************)
EXTENDS Integers, Sequences, FiniteSets, TLC

\* Number of worker threads started over one run.
MaxRequests == 2
\* Number of calls the downloader makes, in one download call, of the progress
\* hook and of the logger.
MaxEvents == 1

Requests == 1..MaxRequests

None == <<"None">>

\* ------------------------------------------------------------------------
\* Python helpers used by the worker
\* ------------------------------------------------------------------------

\* bool(v) of a str-or-None value: None and '' are falsy.
Truthy(v) == v # None /\ v # <<>>

\* str.rfind for a single character, 1-based; 0 when absent (Python's -1).
RFind(p, c) ==
    LET hits == {i \in DOMAIN p : p[i] = c}
    IN  IF hits = {} THEN 0 ELSE CHOOSE i \in hits : \A j \in hits : j <= i

\* os.path.splitext (posixpath): the extension starts at the last dot of the
\* last path component, unless that component has only leading dots before it.
splitext(p) ==
    LET sepIndex == RFind(p, "/")
        dotIndex == RFind(p, ".")
    IN  IF dotIndex > sepIndex
           /\ \E i \in (sepIndex + 1)..(dotIndex - 1) : p[i] # "."
        THEN <<SubSeq(p, 1, dotIndex - 1), SubSeq(p, dotIndex, Len(p))>>
        ELSE <<p, <<>>>>

basenameOmitted(p) == p

\* os.path.basename (posixpath).
basename(p) == SubSeq(p, RFind(p, "/") + 1, Len(p))

UpperToLower ==
    [c \in {"A","B","C","D","E","F","G","H","I","J","K","L","M",
            "N","O","P","Q","R","S","T","U","V","W","X","Y","Z"} |->
        CASE c = "A" -> "a" [] c = "B" -> "b" [] c = "C" -> "c" [] c = "D" -> "d"
          [] c = "E" -> "e" [] c = "F" -> "f" [] c = "G" -> "g" [] c = "H" -> "h"
          [] c = "I" -> "i" [] c = "J" -> "j" [] c = "K" -> "k" [] c = "L" -> "l"
          [] c = "M" -> "m" [] c = "N" -> "n" [] c = "O" -> "o" [] c = "P" -> "p"
          [] c = "Q" -> "q" [] c = "R" -> "r" [] c = "S" -> "s" [] c = "T" -> "t"
          [] c = "U" -> "u" [] c = "V" -> "v" [] c = "W" -> "w" [] c = "X" -> "x"
          [] c = "Y" -> "y" [] c = "Z" -> "z"]

\* str.lower
lower(s) == [i \in DOMAIN s |-> IF s[i] \in DOMAIN UpperToLower
                                THEN UpperToLower[s[i]] ELSE s[i]]

\* The characters str.isspace holds of, which str.strip() removes.  A
\* character that cannot be written in a TLA+ string is denoted by its Python
\* escape (the string "\\x0b" is the one character VT).
Whitespace ==
    {" ", "\t", "\n", "\r", "\f", "\\x0b", "\\x1c", "\\x1d", "\\x1e", "\\x1f",
     "\\x85", "\\xa0", "\\u1680", "\\u2000", "\\u2001", "\\u2002", "\\u2003",
     "\\u2004", "\\u2005", "\\u2006", "\\u2007", "\\u2008", "\\u2009", "\\u200a",
     "\\u2028", "\\u2029", "\\u202f", "\\u205f", "\\u3000"}

\* The bytes bytes.strip() removes: ASCII whitespace only.
BytesWhitespace == {" ", "\t", "\n", "\r", "\f", "\\x0b"}

RECURSIVE lstripOf(_, _)
lstripOf(s, chars) ==
    IF s # <<>> /\ s[1] \in chars THEN lstripOf(Tail(s), chars) ELSE s
RECURSIVE rstripOf(_, _)
rstripOf(s, chars) ==
    IF s # <<>> /\ s[Len(s)] \in chars
    THEN rstripOf(SubSeq(s, 1, Len(s) - 1), chars) ELSE s

\* str.lstrip(), str.rstrip()
lstrip(s) == lstripOf(s, Whitespace)
rstrip(s) == rstripOf(s, Whitespace)

stripOmitted(s) == s

\* str.strip(): leading and trailing whitespace removed.
strip(s) == rstrip(lstrip(s))

\* bytes.strip()
bytes_strip(s) == rstripOf(lstripOf(s, BytesWhitespace), BytesWhitespace)

\* str.startswith
startswith(s, prefix) == Len(prefix) <= Len(s) /\ SubSeq(s, 1, Len(prefix)) = prefix

\* The text of a character sequence, as an f-string interpolates it (a
\* denoted character appears as its escape).
RECURSIVE Text(_)
Text(s) == IF s = <<>> THEN "" ELSE s[1] \o Text(Tail(s))

DotMp4 == <<".", "m", "p", "4">>

\* ------------------------------------------------------------------------
\* Exceptions: a class and the message str(e) is built from
\* ------------------------------------------------------------------------

NoExc == [cls |-> "", msg |-> ""]

\* str(e): the message, except for KeyError, whose str is the repr of the key.
StrOfException(e) ==
    IF e.cls = "KeyError" THEN "'" \o e.msg \o "'" ELSE e.msg

\* What the downloader itself raises (subclasses of Exception).
DownloaderErrors ==
    { [cls |-> "DownloadError", msg |-> "ERROR: Unsupported URL"],
      [cls |-> "OSError", msg |-> "[Errno 13] Permission denied"] }

KeyErrorStatus == [cls |-> "KeyError", msg |-> "status"]
\* os.fspath(None), as os.path.splitext and subprocess.run raise it.
TypeErrorNone ==
    [cls |-> "TypeError",
     msg |-> "expected str, bytes or os.PathLike object, not NoneType"]
\* os.remove(None)
TypeErrorRemoveNone ==
    [cls |-> "TypeError",
     msg |-> "remove: path should be string, bytes or os.PathLike, not NoneType"]

\* repr of one character of a str inside the given quote: the backslash and
\* the quote are escaped, the control characters shown by their escapes;
\* a denoted character is its own escape.
ReprChar(c, quote) ==
    IF c = "\\" THEN "\\\\"
    ELSE IF c = quote THEN "\\" \o c
    ELSE IF c = "\t" THEN "\\t"
    ELSE IF c = "\n" THEN "\\n"
    ELSE IF c = "\r" THEN "\\r"
    ELSE IF c = "\f" THEN "\\x0c"
    ELSE c

RECURSIVE ReprBody(_, _)
ReprBody(s, quote) ==
    IF s = <<>> THEN "" ELSE ReprChar(s[1], quote) \o ReprBody(Tail(s), quote)

\* repr of a str: in double quotes when it holds a single quote and no
\* double quote, in single quotes otherwise.
repr(s) ==
    LET chars == {s[i] : i \in DOMAIN s}
        quote == IF "'" \in chars /\ "\"" \notin chars THEN "\"" ELSE "'"
    IN  quote \o ReprBody(s, quote) \o quote

\* str(FileNotFoundError(2, 'No such file or directory', filename))
FileNotFound(filename) ==
    [cls |-> "FileNotFoundError",
     msg |-> "[Errno 2] No such file or directory: " \o repr(filename)]

\* repr of a list of str: ['a', 'b']
RECURSIVE ReprItems(_)
ReprItems(l) ==
    IF l = <<>> THEN ""
    ELSE repr(l[1]) \o (IF Len(l) > 1 THEN ", " ELSE "") \o ReprItems(Tail(l))
ReprList(l) == "[" \o ReprItems(l) \o "]"

\* signal.Signals: the names of the signal numbers (Linux).
Signals ==
    [n \in (1..31) \cup {34, 64} |->
        CASE n = 1 -> "SIGHUP" [] n = 2 -> "SIGINT" [] n = 3 -> "SIGQUIT"
          [] n = 4 -> "SIGILL" [] n = 5 -> "SIGTRAP" [] n = 6 -> "SIGABRT"
          [] n = 7 -> "SIGBUS" [] n = 8 -> "SIGFPE" [] n = 9 -> "SIGKILL"
          [] n = 10 -> "SIGUSR1" [] n = 11 -> "SIGSEGV" [] n = 12 -> "SIGUSR2"
          [] n = 13 -> "SIGPIPE" [] n = 14 -> "SIGALRM" [] n = 15 -> "SIGTERM"
          [] n = 16 -> "SIGSTKFLT" [] n = 17 -> "SIGCHLD" [] n = 18 -> "SIGCONT"
          [] n = 19 -> "SIGSTOP" [] n = 20 -> "SIGTSTP" [] n = 21 -> "SIGTTIN"
          [] n = 22 -> "SIGTTOU" [] n = 23 -> "SIGURG" [] n = 24 -> "SIGXCPU"
          [] n = 25 -> "SIGXFSZ" [] n = 26 -> "SIGVTALRM" [] n = 27 -> "SIGPROF"
          [] n = 28 -> "SIGWINCH" [] n = 29 -> "SIGIO" [] n = 30 -> "SIGPWR"
          [] n = 31 -> "SIGSYS" [] n = 34 -> "SIGRTMIN" [] n = 64 -> "SIGRTMAX"]

\* subprocess.CalledProcessError(returncode, cmd, stderr=stderr): its str
\* names the command and the exit status, or the signal that ended the
\* process when the return code is negative; the captured stderr is an
\* attribute that str does not show.
CalledProcessError(cmd, returncode, stderr) ==
    [cls |-> "CalledProcessError",
     msg |-> "Command '" \o ReprList(cmd) \o "' " \o
             (IF returncode < 0
              THEN IF -returncode \in DOMAIN Signals
                   THEN "died with <Signals." \o Signals[-returncode] \o ": "
                        \o ToString(-returncode) \o ">."
                   ELSE "died with unknown signal " \o ToString(-returncode) \o "."
              ELSE "returned non-zero exit status " \o ToString(returncode) \o "."),
     stderr |-> stderr]

\* except subprocess.SubprocessError (line 126)
IsSubprocessError(e) == e.cls \in {"CalledProcessError", "TimeoutExpired"}

\* ------------------------------------------------------------------------
\* Inputs
\* ------------------------------------------------------------------------

\* The entries of the format combo box (gui.py line 69).
Formats == {"mp4", "mp3", "webm", "best"}
\* The selected_format values the workers are started with: 'best' and one other.
SelectedFormats == {"mp3", "best"}

\* URLs handed to YtDlpDownloader.start_download.
Urls == { <<"u">> }
\* The output directory (the text of output_dir_entry).
OutputDir == <<"/", "d">>
\* The states of the subtitles and thumbnail check boxes while the Download
\* button is clicked: both unchecked, as the window creates them.
Checked == {FALSE}
\* Texts the user leaves in the URL field.
UrlTexts == { <<>>, <<" ", "\r">>, <<" ", "u">> }

PathWebm == <<"/", "d", "/", "v", ".", "w", "e", "b", "m">>
PathMp4  == <<"/", "d", "/", "w", ".", "M", "P", "4">>
PathM4a  == <<"/", "d", "/", "a", "'", ".", "m", "4", "a">>
\* The files that hold a video stream; the others are audio only.
VideoFiles == {PathWebm}

\* Progress payloads the downloader hands to progress_hook (Python dicts).
Payloads ==
    { [status |-> "downloading", _percent_str |-> "50%",
       _speed_str |-> "1MiB/s", _eta_str |-> "00:10"],
      [status |-> "downloading", _speed_str |-> "1MiB/s"],
      [status |-> "finished", filename |-> PathWebm],
      [status |-> "finished", filename |-> PathMp4],
      [status |-> "finished", filename |-> PathM4a],
      [_percent_str |-> "50%"] }

\* One payload of each kind: 'downloading' with fields missing, 'finished',
\* and one without status.
FewPayloads ==
    { [status |-> "downloading", _speed_str |-> "1MiB/s"],
      [status |-> "finished", filename |-> PathWebm],
      [_percent_str |-> "50%"] }

\* The calls the downloader makes of its logger: screen output goes to
\* debug, with the prefix '[debug] ' when it is debug output.
LoggerCalls ==
    { [method |-> "debug", msg |-> <<"[", "d", "e", "b", "u", "g", "]", " ", "x">>],
      [method |-> "debug", msg |-> <<"[", "d", "o", "w", "n", "l", "o", "a", "d", "]", " ", "x">>],
      [method |-> "info", msg |-> <<"x">>],
      [method |-> "warning", msg |-> <<"x">>],
      [method |-> "error", msg |-> <<"x">>] }

\* One logger call that is shown and one that is filtered.
FewLoggerCalls ==
    { [method |-> "debug", msg |-> <<"[", "d", "e", "b", "u", "g", "]", " ", "x">>],
      [method |-> "debug", msg |-> <<"[", "d", "o", "w", "n", "l", "o", "a", "d", "]", " ", "x">>] }

\* dict.get(key, default)
Get(d, key, default) == IF key \in DOMAIN d THEN d[key] ELSE default

\* ------------------------------------------------------------------------
\* State
\* ------------------------------------------------------------------------

VARIABLES
    pc,               \* per request: the line the worker thread is at
    args,             \* per request: selected_format, convert_to_mp4
    locals,           \* per request: the worker's local variables
    downloaded_file,  \* YtDlpDownloader.downloaded_file, shared by all workers
    queue,            \* signal emissions posted to the GUI thread, oldest first
    url_entry,        \* YtDlpGui.url_entry text
    progress_bar,     \* YtDlpGui.progress_bar is visible
    status_label,     \* YtDlpGui.status_label text
    log_text,         \* the last line of YtDlpGui.log_text ("" when it is empty)
    message_box,      \* the message box opened last ("" before the first)
    writer,           \* the request whose thread assigned downloaded_file last (0: none)
    trace,            \* per request: what the worker has done so far
    delivered,        \* per request: what the GUI slots have received so far
    app               \* the process: start-up phase, environment, exit status

vars == <<pc, args, locals, downloaded_file, writer, queue, url_entry,
          progress_bar, status_label, log_text, message_box, trace, delivered,
          app>>

\* The callbacks YtDlpGui.__init__ registers with the downloader.
callbacks == {"log_message", "update_progress", "on_complete", "on_error"}

NoCmd == [variant |-> "", argv |-> <<>>, source |-> None, target |-> None]
NoArgs == [url |-> <<>>, output_dir |-> <<>>, selected_format |-> "",
           with_subtitles |-> FALSE, with_thumbnail |-> FALSE,
           convert_to_mp4 |-> FALSE]
\* A dict without keys.
EmptyDict == [k \in {} |-> k]
NoLocals == [ydl_opts |-> EmptyDict, events |-> 0, exc |-> NoExc, mp4_file |-> None,
             has_video |-> FALSE, filename |-> None]
NoTrace ==
    [dl |-> "none",         \* the downloader call: none, returned, raised
     exc |-> NoExc,         \* the exception that came out of ydl.download
     raisedBy |-> "",       \* where it was raised: downloader, progress_hook
     entered |-> NoArgs,    \* the arguments, once line 83 let the worker in
     gate |-> None,         \* the record line 83 read when it let the worker in
     examined |-> None,     \* the record line 87 split
     probe |-> "none",      \* ffprobe: none, ran, failed (exit status), nospawn
     probed |-> None,       \* the file ffprobe was run on
     reported |-> FALSE,    \* ffprobe printed a video stream
     conv |-> "none",       \* ffmpeg: none, ok, failed (exit status), nospawn
     cmd |-> NoCmd,         \* the ffmpeg command that was run
     stderr |-> "",         \* what ffmpeg wrote to its stderr pipe
     removed |-> None,      \* the file os.remove deleted
     steps |-> <<>>,        \* transcode steps and terminal calls, in order
     emitted |-> 0,         \* signals emitted
     joined |-> FALSE]      \* the caller of start_download waits for the thread
NoDelivered == [n |-> 0, term |-> FALSE]

\* The process before its first statement, in an environment where yt_dlp is
\* importable or not and 'ffmpeg -version' succeeds ("ok"), finds no ffmpeg
\* on the PATH ("missing"), exits non-zero ("fails"), or finds an ffmpeg that
\* cannot be executed: not executable or a directory ("noexec"), a file that
\* is no program ("noprogram").  exit is "" while it runs.
Started(yt_dlp, ffmpeg) ==
    [phase |-> "start", yt_dlp |-> yt_dlp, ffmpeg |-> ffmpeg,
     window |-> FALSE, box |-> "", stderr |-> "", exit |-> ""]

\* The process once main() has shown the window and entered app.exec_().
Running == [Started(TRUE, "ok") EXCEPT !.phase = "running", !.window = TRUE]

Init ==
    /\ pc = [r \in Requests |-> "idle"]
    /\ args = [r \in Requests |-> NoArgs]
    /\ locals = [r \in Requests |-> NoLocals]
    /\ downloaded_file = None
    /\ writer = 0
    /\ queue = <<>>
    /\ url_entry = <<>>
    /\ progress_bar = FALSE
    /\ status_label = "Ready"
    /\ log_text = ""
    /\ message_box = ""
    /\ trace = [r \in Requests |-> NoTrace]
    /\ delivered = [r \in Requests |-> NoDelivered]
    /\ app = Running

\* ------------------------------------------------------------------------
\* Notifications: a signal emitted from the worker thread is posted to the
\* GUI thread's event queue (queued connection), behind the earlier ones.
\* ------------------------------------------------------------------------

Signal(r, n, kind, status, data, text) ==
    [req |-> r, seq |-> n, kind |-> kind, status |-> status, data |-> data,
     text |-> text]

PostInFront(q, sig) == <<sig>> \o q

\* A queued connection: the emission is posted behind the earlier ones.
Post(q, sig) == Append(q, sig)

\* The queue after request r calls the named callback, and the number of
\* signals r has emitted so far; a callback that is not registered is skipped.
Emit(q, n, r, name, kind, status, data, text) ==
    IF name \in callbacks
    THEN [queue |-> Post(q, Signal(r, n + 1, kind, status, data, text)), n |-> n + 1]
    ELSE [queue |-> q, n |-> n]

log_message(q, n, r, message) ==
    Emit(q, n, r, "log_message", "log", "", None, message)
update_progress(q, n, r, status, data) ==
    Emit(q, n, r, "update_progress", "progress", status, data, "")
on_complete(q, n, r) ==
    Emit(q, n, r, "on_complete", "complete", "", None, "")
on_error(q, n, r, error_msg) ==
    Emit(q, n, r, "on_error", "error", "", None, error_msg)

GuiVars == <<url_entry, progress_bar, status_label, log_text, message_box, delivered,
             app>>

\* ------------------------------------------------------------------------
\* YtDlpDownloader.start_download / download_video
\* ------------------------------------------------------------------------

\* dict.update(other)
Update(d, other) ==
    [k \in DOMAIN d \cup DOMAIN other |-> IF k \in DOMAIN other THEN other[k] ELSE d[k]]

\* os.path.join(a, b) (posixpath) for a relative b.
join(a, b) ==
    IF a = <<>> \/ a[Len(a)] = "/" THEN a \o b ELSE a \o <<"/">> \o b

OutputTemplate ==
    <<"%", "(", "t", "i", "t", "l", "e", ")", "s", ".", "%", "(", "e", "x", "t", ")", "s">>

list_insert_front(l, x) == <<x>> \o l

\* list.append (line 71)
list_append(l, x) == Append(l, x)

\* lines 35-75: the option set download_video builds for yt_dlp.YoutubeDL.
ydl_opts(output_dir, selected_format, with_subtitles, with_thumbnail) ==
    LET base == [outtmpl |-> Text(join(output_dir, OutputTemplate)),
                 logger |-> "CustomLogger(self)",
                 progress_hooks |-> <<"self.progress_hook">>,
                 quiet |-> TRUE]
        fmt ==
            IF selected_format = "mp3"
            THEN Update(base,
                   [format |-> "bestaudio/best",
                    postprocessors |-> << [key |-> "FFmpegExtractAudio",
                                           preferredcodec |-> "mp3",
                                           preferredquality |-> "192"] >>])
            ELSE IF selected_format = "mp4"
            THEN Update(base,
                   [format |-> "bestvideo[ext=mp4]+bestaudio[ext=m4a]/best[ext=mp4]/best"])
            ELSE IF selected_format = "webm"
            THEN Update(base,
                   [format |-> "bestvideo[ext=webm]+bestaudio[ext=webm]/best[ext=webm]/best"])
            ELSE base
        subs ==
            IF with_subtitles
            THEN Update(fmt, [writesubtitles |-> TRUE, writeautomaticsub |-> TRUE])
            ELSE fmt
        postprocessors ==
            list_append(Get(subs, "postprocessors", <<>>),
                        [key |-> "FFmpegThumbnailsConvertor", format |-> "jpg"])
    IN  IF with_thumbnail
        THEN Update(subs, [writethumbnail |-> TRUE, postprocessors |-> postprocessors])
        ELSE subs

WaitsForThreadJoin == TRUE

\* Whether start_download waits for the thread it started: it returns once
\* download_thread.start() has returned and never calls download_thread.join().
WaitsForThread == FALSE

\* The thread that called start_download is still inside it: it waits for a
\* worker that has not returned from download_video.
CallerBlocked ==
    \E r \in Requests : trace[r].joined /\ pc[r] \notin {"idle", "done", "uncaught"}

\* start_download: a new thread is created and started; the caller goes on.
\* The thread begins download_video: the option set is built from the
\* arguments and the worker stands before line 78.
StartThread(r, url, selected_format, with_subtitles, with_thumbnail, convert_to_mp4) ==
    /\ pc[r] = "idle"
    /\ \A s \in Requests : s < r => pc[s] # "idle"
    /\ ~CallerBlocked
    /\ pc' = [pc EXCEPT ![r] = "L78"]
    /\ args' = [args EXCEPT ![r] = [url |-> url,
                                    output_dir |-> OutputDir,
                                    selected_format |-> selected_format,
                                    with_subtitles |-> with_subtitles,
                                    with_thumbnail |-> with_thumbnail,
                                    convert_to_mp4 |-> convert_to_mp4]]
    /\ locals' = [locals EXCEPT
                    ![r].ydl_opts = ydl_opts(OutputDir, selected_format,
                                             with_subtitles, with_thumbnail)]
    /\ trace' = [trace EXCEPT ![r].joined = WaitsForThread]
    /\ UNCHANGED <<downloaded_file, writer, queue>>

\* A direct caller of YtDlpDownloader.start_download: the two check-box
\* arguments are left at their defaults.
start_download(r) ==
    /\ \E u \in Urls, f \in SelectedFormats, c \in BOOLEAN :
          StartThread(r, u, f, FALSE, FALSE, c)
    /\ UNCHANGED GuiVars

\* A direct caller with any arguments.
start_download_any(r) ==
    /\ \E u \in Urls, f \in Formats, s \in BOOLEAN, t \in BOOLEAN, c \in BOOLEAN :
          StartThread(r, u, f, s, t, c)
    /\ UNCHANGED GuiVars

\* line 78: self.log_message(f"Starting download of {url}")
LogStart(r) ==
    /\ pc[r] = "L78"
    /\ LET e == log_message(queue, trace[r].emitted, r,
                            "Starting download of " \o Text(args[r].url))
       IN  /\ queue' = e.queue
           /\ trace' = [trace EXCEPT ![r].emitted = e.n]
    /\ pc' = [pc EXCEPT ![r] = "L79"]
    /\ UNCHANGED <<args, locals, downloaded_file, writer, GuiVars>>

\* line 79: self.downloaded_file = None, then the downloader is entered.
ResetRecord(r) ==
    /\ pc[r] = "L79"
    /\ downloaded_file' = None
    /\ writer' = r
    /\ pc' = [pc EXCEPT ![r] = "L81"]
    /\ UNCHANGED <<args, locals, queue, trace, GuiVars>>

\* Classes the handler "except Exception" (line 131) catches.
IsException(e) == e.cls \notin {"SystemExit", "KeyboardInterrupt", "GeneratorExit"}

HandlerDownloadErrorOnly(e, inInnerTry) ==
    IF inInnerTry /\ IsSubprocessError(e) THEN "L127"
    ELSE IF e.cls = "DownloadError" THEN "L133"
    ELSE "uncaught"

\* Where an exception raised inside download_video's outer try block takes the
\* worker: the inner handler (line 126) if it was raised inside the inner try
\* and is a SubprocessError, else the outer handler (line 131), else out of
\* the thread.
Handler(e, inInnerTry) ==
    IF inInnerTry /\ IsSubprocessError(e) THEN "L127"
    ELSE IF IsException(e) THEN "L133"
    ELSE "uncaught"

\* progress_hook(d), called by the downloader on the worker thread of r, up
\* to its first effect: the exception it raises (NoExc if none), the queue,
\* r's emission count and the shared record after it, and where the worker
\* stands then.  Line 146 raises KeyError for a payload without 'status';
\* a 'downloading' payload emits its update (line 158) and the hook returns;
\* a 'finished' payload assigns the record (line 164) and leaves the worker
\* before line 165.
progress_hook(d, q, n, r, record) ==
    IF "status" \notin DOMAIN d
    THEN [exc |-> KeyErrorStatus, queue |-> q, n |-> n, record |-> record,
          filename |-> None, pc |-> Handler(KeyErrorStatus, FALSE)]
    ELSE IF d.status = "downloading"
    THEN LET percent == Get(d, "_percent_str", "N/A")
             speed   == Get(d, "_speed_str", "N/A")
             eta     == Get(d, "_eta_str", "N/A")
             e == update_progress(q, n, r, "downloading", <<percent, speed, eta>>)
         IN  [exc |-> NoExc, queue |-> e.queue, n |-> e.n, record |-> record,
              filename |-> None, pc |-> "L81"]
    ELSE IF d.status = "finished"
    THEN LET filename == Get(d, "filename", <<"U","n","k","n","o","w","n">>)
         IN  [exc |-> NoExc, queue |-> q, n |-> n, record |-> filename,
              filename |-> filename, pc |-> "H165"]
    ELSE [exc |-> NoExc, queue |-> q, n |-> n, record |-> record,
          filename |-> None, pc |-> "L81"]

\* line 81, inside ydl.download: the downloader invokes the progress hook on
\* the worker thread.  An exception of the hook unwinds through the
\* downloader's frames and out of ydl.download.
HookEventOf(r, P) ==
    /\ pc[r] = "L81"
    /\ locals[r].events < MaxEvents
    /\ \E d \in P :
        LET h == progress_hook(d, queue, trace[r].emitted, r, downloaded_file)
            raised == h.exc # NoExc
            wrote == "status" \in DOMAIN d /\ d.status = "finished"
        IN  /\ queue' = h.queue
            /\ downloaded_file' = h.record
            /\ writer' = IF wrote THEN r ELSE writer
            /\ trace' = [trace EXCEPT
                           ![r].emitted = h.n,
                           ![r].dl = IF raised THEN "raised" ELSE @,
                           ![r].raisedBy = IF raised THEN "progress_hook" ELSE @,
                           ![r].exc = IF raised THEN h.exc ELSE @]
            /\ locals' = [locals EXCEPT
                            ![r].events = @ + 1,
                            ![r].filename = h.filename,
                            ![r].exc = IF raised THEN h.exc ELSE @]
            /\ pc' = [pc EXCEPT ![r] = h.pc]
    /\ UNCHANGED <<args, GuiVars>>

HookEvent(r) == HookEventOf(r, Payloads)

\* line 165: self.log_message(f"Download finished: {os.path.basename(filename)}")
HookLog(r) ==
    /\ pc[r] = "H165"
    /\ LET e == log_message(queue, trace[r].emitted, r,
                    "Download finished: " \o Text(basename(locals[r].filename)))
       IN  /\ queue' = e.queue
           /\ trace' = [trace EXCEPT ![r].emitted = e.n]
    /\ pc' = [pc EXCEPT ![r] = "H166"]
    /\ UNCHANGED <<args, locals, downloaded_file, writer, GuiVars>>

\* line 166: self.update_progress('processing', None); the hook returns into
\* the downloader.
HookProcessing(r) ==
    /\ pc[r] = "H166"
    /\ LET e == update_progress(queue, trace[r].emitted, r, "processing", None)
       IN  /\ queue' = e.queue
           /\ trace' = [trace EXCEPT ![r].emitted = e.n]
    /\ locals' = [locals EXCEPT ![r].filename = None]
    /\ pc' = [pc EXCEPT ![r] = "L81"]
    /\ UNCHANGED <<args, downloaded_file, writer, GuiVars>>

\* CustomLogger (lines 168-184), the 'logger' of ydl_opts: the messages a
\* call of one of its methods hands to log_message, none or one.
CustomLogger_info(msg) == <<Text(msg)>>
CustomLogger_debug(msg) ==
    IF ~startswith(msg, <<"[", "d", "e", "b", "u", "g", "]", " ">>)
    THEN CustomLogger_info(msg) ELSE <<>>
CustomLogger_warning(msg) == <<"Warning: " \o Text(msg)>>
CustomLogger_error(msg) == <<"Error: " \o Text(msg)>>

CustomLogger(method, msg) ==
    CASE method = "debug" -> CustomLogger_debug(msg)
      [] method = "info" -> CustomLogger_info(msg)
      [] method = "warning" -> CustomLogger_warning(msg)
      [] method = "error" -> CustomLogger_error(msg)

\* line 81, inside ydl.download: the downloader writes a message through the
\* logger, on the worker thread.
LoggerEventOf(r, C) ==
    /\ pc[r] = "L81"
    /\ locals[r].events < MaxEvents
    /\ \E c \in C :
        LET m == CustomLogger(c.method, c.msg)
            e == IF m = <<>> THEN [queue |-> queue, n |-> trace[r].emitted]
                 ELSE log_message(queue, trace[r].emitted, r, m[1])
        IN  /\ queue' = e.queue
            /\ trace' = [trace EXCEPT ![r].emitted = e.n]
    /\ locals' = [locals EXCEPT ![r].events = @ + 1]
    /\ UNCHANGED <<pc, args, downloaded_file, writer, GuiVars>>

LoggerEvent(r) == LoggerEventOf(r, LoggerCalls)

\* line 81: ydl.download returns.
DownloadReturns(r) ==
    /\ pc[r] = "L81"
    /\ pc' = [pc EXCEPT ![r] = "L83"]
    /\ trace' = [trace EXCEPT ![r].dl = "returned"]
    /\ UNCHANGED <<args, locals, downloaded_file, writer, queue, GuiVars>>

\* lines 80-81: the YoutubeDL constructor or ydl.download raises.
DownloadRaises(r) ==
    /\ pc[r] = "L81"
    /\ \E e \in DownloaderErrors :
        /\ pc' = [pc EXCEPT ![r] = Handler(e, FALSE)]
        /\ locals' = [locals EXCEPT ![r].exc = e]
        /\ trace' = [trace EXCEPT ![r].dl = "raised", ![r].exc = e,
                                  ![r].raisedBy = "downloader"]
    /\ UNCHANGED <<args, downloaded_file, writer, queue, GuiVars>>

TranscodeWantedWithoutFlag(a, record) ==
    a.selected_format = "best" /\ Truthy(record)

\* line 83: the condition of the transcode step; True leads into time.sleep(2).
TranscodeWanted(a, record) ==
    a.selected_format = "best" /\ a.convert_to_mp4 /\ Truthy(record)

CheckTranscode(r) ==
    /\ pc[r] = "L83"
    /\ IF TranscodeWanted(args[r], downloaded_file)
       THEN /\ pc' = [pc EXCEPT ![r] = "L85"]
            /\ trace' = [trace EXCEPT ![r].entered = args[r],
                                      ![r].gate = downloaded_file]
       ELSE /\ pc' = [pc EXCEPT ![r] = "L130"]
            /\ UNCHANGED trace
    /\ UNCHANGED <<args, locals, downloaded_file, writer, queue, GuiVars>>

\* lines 85-89: time.sleep(2) returns; the record is read again and split.
\* splitext(None) raises TypeError outside the inner try block.
AfterSleep(r) ==
    /\ pc[r] = "L85"
    /\ IF downloaded_file = None
       THEN /\ pc' = [pc EXCEPT ![r] = Handler(TypeErrorNone, FALSE)]
            /\ locals' = [locals EXCEPT ![r].exc = TypeErrorNone]
            /\ UNCHANGED trace
       ELSE LET base == splitext(downloaded_file)[1]
                ext  == splitext(downloaded_file)[2]
            IN  IF lower(ext) # DotMp4
                THEN /\ pc' = [pc EXCEPT ![r] = "L93"]
                     /\ locals' = [locals EXCEPT ![r].mp4_file = base \o DotMp4]
                     /\ trace' = [trace EXCEPT ![r].examined = downloaded_file]
                ELSE /\ pc' = [pc EXCEPT ![r] = "L130"]
                     /\ trace' = [trace EXCEPT ![r].examined = downloaded_file]
                     /\ UNCHANGED locals
    /\ UNCHANGED <<args, downloaded_file, writer, queue, GuiVars>>

\* The words of the command lines (lines 95, 106-114).
FFPROBE == <<"f", "f", "p", "r", "o", "b", "e">>
FFMPEG == <<"f", "f", "m", "p", "e", "g">>
OptY == <<"-", "y">>
OptI == <<"-", "i">>
OptCV == <<"-", "c", ":", "v">>
Libx264 == <<"l", "i", "b", "x", "2", "6", "4">>
OptPreset == <<"-", "p", "r", "e", "s", "e", "t">>
Ultrafast == <<"u", "l", "t", "r", "a", "f", "a", "s", "t">>
OptCA == <<"-", "c", ":", "a">>
Copy == <<"c", "o", "p", "y">>
OptVN == <<"-", "v", "n">>

\* Return codes of ffprobe and ffmpeg: success, failure, killed by SIGKILL.
ExitCodes == {0, 1, -9}

\* What ffprobe -select_streams v:0 -show_entries stream=codec_type
\* -of csv=p=0 prints on stdout: the codec type of the first video stream,
\* nothing when there is none or when it fails.
ffprobe_stdout(file, returncode) ==
    IF returncode = 0 /\ file \in VideoFiles
    THEN <<"v", "i", "d", "e", "o", "\n">>
    ELSE <<>>

\* line 102: has_video = probe.stdout.strip() != b''
has_video(stdout) == bytes_strip(stdout) # <<>>

\* lines 93-102: subprocess.run(['ffprobe', ..., self.downloaded_file]) without
\* check=True, so that its exit status is not looked at.  A None argument
\* raises TypeError before any process exists; a missing binary raises
\* FileNotFoundError; otherwise the probe runs and has_video is whether it
\* printed anything.
Probe(r) ==
    /\ pc[r] = "L93"
    /\ \/ /\ downloaded_file = None
          /\ pc' = [pc EXCEPT ![r] = Handler(TypeErrorNone, TRUE)]
          /\ locals' = [locals EXCEPT ![r].exc = TypeErrorNone]
          /\ UNCHANGED trace
       \/ /\ downloaded_file # None
          /\ pc' = [pc EXCEPT ![r] = Handler(FileNotFound(FFPROBE), TRUE)]
          /\ locals' = [locals EXCEPT ![r].exc = FileNotFound(FFPROBE)]
          /\ trace' = [trace EXCEPT ![r].probe = "nospawn"]
       \/ /\ downloaded_file # None
          /\ \E returncode \in ExitCodes :
               LET stdout == ffprobe_stdout(downloaded_file, returncode)
               IN  /\ locals' = [locals EXCEPT ![r].has_video = has_video(stdout)]
                   /\ trace' = [trace EXCEPT
                         ![r].probe = IF returncode = 0 THEN "ran" ELSE "failed",
                         ![r].probed = downloaded_file,
                         ![r].reported = stdout # <<>>,
                         ![r].steps = Append(@, "probe")]
          /\ pc' = [pc EXCEPT ![r] = "L105"]
    /\ UNCHANGED <<args, downloaded_file, writer, queue, GuiVars>>

\* lines 105-115: the ffmpeg command for the file in the record.
ffmpeg_cmd(video, source, mp4_file) ==
    [variant |-> IF video THEN "reencode" ELSE "audio_only",
     argv |-> IF video
              THEN <<FFMPEG, OptY, OptI, source,
                     OptCV, Libx264, OptPreset, Ultrafast,
                     OptCA, Copy, mp4_file>>
              ELSE <<FFMPEG, OptY, OptI, source,
                     OptVN, OptCA, Copy, mp4_file>>,
     source |-> source, target |-> mp4_file]

\* What ffmpeg writes to the stderr pipe (line 122).
ffmpeg_stderr(source, returncode) ==
    IF returncode # 0
    THEN Text(source) \o ": Invalid data found when processing input"
    ELSE ""

NoCheck(cmd, returncode, stderr) == NoExc

\* subprocess.run(..., check=True) (line 120): a non-zero exit status raises
\* CalledProcessError.
run_check(cmd, returncode, stderr) ==
    IF returncode # 0 THEN CalledProcessError(cmd, returncode, stderr) ELSE NoExc

\* lines 105-123: the command is built from the record and run with
\* check=True: CalledProcessError on a non-zero exit, FileNotFoundError when
\* the binary is missing, TypeError when the record holds None.
Convert(r) ==
    /\ pc[r] = "L105"
    /\ \/ /\ downloaded_file = None
          /\ pc' = [pc EXCEPT ![r] = Handler(TypeErrorNone, TRUE)]
          /\ locals' = [locals EXCEPT ![r].exc = TypeErrorNone]
          /\ UNCHANGED trace
       \/ /\ downloaded_file # None
          /\ pc' = [pc EXCEPT ![r] = Handler(FileNotFound(FFMPEG), TRUE)]
          /\ locals' = [locals EXCEPT ![r].exc = FileNotFound(FFMPEG)]
          /\ trace' = [trace EXCEPT ![r].conv = "nospawn"]
       \/ /\ downloaded_file # None
          /\ \E returncode \in ExitCodes :
               LET cmd == ffmpeg_cmd(locals[r].has_video, downloaded_file,
                                     locals[r].mp4_file)
                   stderr == ffmpeg_stderr(downloaded_file, returncode)
                   e == run_check(cmd.argv, returncode, stderr)
               IN  /\ pc' = [pc EXCEPT ![r] = IF e # NoExc THEN Handler(e, TRUE)
                                              ELSE "L124"]
                   /\ locals' = [locals EXCEPT ![r].exc = e]
                   /\ trace' = [trace EXCEPT
                         ![r].conv = IF returncode = 0 THEN "ok" ELSE "failed",
                         ![r].cmd = cmd,
                         ![r].stderr = stderr,
                         ![r].steps = Append(@, "convert")]
    /\ UNCHANGED <<args, downloaded_file, writer, queue, GuiVars>>

\* line 124: os.remove(self.downloaded_file); TypeError for None, OSError
\* when the path is not there any more.
Remove(r) ==
    /\ pc[r] = "L124"
    /\ \/ /\ downloaded_file = None
          /\ pc' = [pc EXCEPT ![r] = Handler(TypeErrorRemoveNone, TRUE)]
          /\ locals' = [locals EXCEPT ![r].exc = TypeErrorRemoveNone]
          /\ UNCHANGED trace
       \/ /\ downloaded_file # None
          /\ pc' = [pc EXCEPT ![r] = Handler(FileNotFound(downloaded_file), TRUE)]
          /\ locals' = [locals EXCEPT ![r].exc = FileNotFound(downloaded_file)]
          /\ UNCHANGED trace
       \/ /\ downloaded_file # None
          /\ pc' = [pc EXCEPT ![r] = "L125"]
          /\ trace' = [trace EXCEPT ![r].removed = downloaded_file,
                                    ![r].steps = Append(@, "remove")]
          /\ UNCHANGED locals
    /\ UNCHANGED <<args, downloaded_file, writer, queue, GuiVars>>

\* line 125: self.log_message(f"Converted to mp4: {os.path.basename(mp4_file)}")
LogConverted(r) ==
    /\ pc[r] = "L125"
    /\ LET e == log_message(queue, trace[r].emitted, r,
                    "Converted to mp4: " \o Text(basename(locals[r].mp4_file)))
       IN  /\ queue' = e.queue
           /\ trace' = [trace EXCEPT ![r].emitted = e.n,
                                     ![r].steps = Append(@, "log")]
    /\ pc' = [pc EXCEPT ![r] = "L130"]
    /\ UNCHANGED <<args, locals, downloaded_file, writer, GuiVars>>

\* The thread's frame is gone once download_video has returned.
EndThread(r) ==
    /\ args' = [args EXCEPT ![r] = NoArgs]
    /\ locals' = [locals EXCEPT ![r] = NoLocals]

\* line 130: self.on_complete()
Complete(r) ==
    /\ pc[r] = "L130"
    /\ LET e == on_complete(queue, trace[r].emitted, r)
       IN  /\ queue' = e.queue
           /\ trace' = [trace EXCEPT ![r].emitted = e.n,
                                     ![r].steps = Append(@, "on_complete")]
    /\ pc' = [pc EXCEPT ![r] = "done"]
    /\ EndThread(r)
    /\ UNCHANGED <<downloaded_file, writer, GuiVars>>

FallThroughAt128 == "L130"

\* line 128: return, out of download_video.
ReturnAt128 == "done"

\* lines 126-128: except subprocess.SubprocessError as e:
\* self.on_error(f"ffmpeg conversion failed: {e}"); return
ConversionFailed(r) ==
    /\ pc[r] = "L127"
    /\ LET error_msg == "ffmpeg conversion failed: " \o StrOfException(locals[r].exc)
           e == on_error(queue, trace[r].emitted, r, error_msg)
       IN  /\ queue' = e.queue
           /\ trace' = [trace EXCEPT ![r].emitted = e.n,
                                     ![r].steps = Append(@, "on_error")]
    /\ pc' = [pc EXCEPT ![r] = ReturnAt128]
    /\ EndThread(r)
    /\ UNCHANGED <<downloaded_file, writer, GuiVars>>

\* lines 131-133: except Exception as e: self.on_error(str(e))
ReportError(r) ==
    /\ pc[r] = "L133"
    /\ LET error_msg == StrOfException(locals[r].exc)
           e == on_error(queue, trace[r].emitted, r, error_msg)
       IN  /\ queue' = e.queue
           /\ trace' = [trace EXCEPT ![r].emitted = e.n,
                                     ![r].steps = Append(@, "on_error")]
    /\ pc' = [pc EXCEPT ![r] = "done"]
    /\ EndThread(r)
    /\ UNCHANGED <<downloaded_file, writer, GuiVars>>

\* ------------------------------------------------------------------------
\* YtDlpGui: the slots, run on the GUI thread
\* ------------------------------------------------------------------------

\* YtDlpGui.update_progress(status, data): bar visibility and label text.
gui_update_progress(status, data, bar, label) ==
    IF status = "downloading" /\ data # None
    THEN [bar |-> TRUE,
          label |-> "Downloading: " \o data[1] \o " at " \o data[2]
                    \o ", ETA: " \o data[3]]
    ELSE IF status = "processing"
    THEN [bar |-> TRUE, label |-> "Post-processing..."]
    ELSE [bar |-> bar, label |-> label]

download_completeBarLeft(bar) ==
    [bar |-> bar, label |-> "Download complete!", box |-> "information"]

\* YtDlpGui.download_complete(): the bar is hidden, the label set and the
\* information box opened.
download_complete(bar) ==
    [bar |-> FALSE, label |-> "Download complete!", box |-> "information"]

\* YtDlpGui.download_error(error_msg): the bar is hidden, the label set, the
\* message appended to the log and the critical box opened.
download_error(error_msg) ==
    [bar |-> FALSE, label |-> "Error occurred", log |-> "Error: " \o error_msg,
     box |-> "critical"]

\* The GUI event loop takes the oldest posted signal and runs its slot:
\* log_message, update_progress, download_complete or download_error.
Deliver ==
    /\ app.window
    /\ ~CallerBlocked
    /\ queue # <<>>
    /\ LET sig == Head(queue)
       IN  /\ queue' = Tail(queue)
           /\ delivered' = [delivered EXCEPT
                ![sig.req] = [n |-> @.n + 1,
                              term |-> @.term \/ sig.kind \in {"complete", "error"}]]
           /\ CASE sig.kind = "log" ->
                    /\ log_text' = sig.text
                    /\ UNCHANGED <<progress_bar, status_label, message_box>>
                [] sig.kind = "progress" ->
                    LET g == gui_update_progress(sig.status, sig.data,
                                                 progress_bar, status_label)
                    IN  /\ progress_bar' = g.bar
                        /\ status_label' = g.label
                        /\ UNCHANGED <<log_text, message_box>>
                [] sig.kind = "complete" ->
                    LET g == download_complete(progress_bar)
                    IN  /\ progress_bar' = g.bar
                        /\ status_label' = g.label
                        /\ message_box' = g.box
                        /\ UNCHANGED log_text
                [] sig.kind = "error" ->
                    LET g == download_error(sig.text)
                    IN  /\ progress_bar' = g.bar
                        /\ status_label' = g.label
                        /\ log_text' = g.log
                        /\ message_box' = g.box
    /\ UNCHANGED <<pc, args, locals, downloaded_file, writer, trace, url_entry, app>>

\* The user types or pastes into the URL field.
EditUrl ==
    /\ app.window
    /\ ~CallerBlocked
    /\ \E t \in UrlTexts : url_entry' = t
    /\ UNCHANGED <<pc, args, locals, downloaded_file, writer, queue, trace,
                   progress_bar, status_label, log_text, message_box, delivered, app>>

ConvertToMp4Passed == TRUE

\* convert_to_mp4 in the call of lines 209-215: the argument is not passed
\* and the parameter keeps its default (main.py line 135).
ConvertToMp4Default == FALSE

\* YtDlpGui.start_download, the Download button's slot: an empty URL opens a
\* warning box and starts nothing; otherwise the bar is shown and the
\* downloader is started with the GUI's options.
ClickDownload ==
    /\ app.window
    /\ ~CallerBlocked
    /\ LET url == strip(url_entry)
       IN  IF url = <<>>
           THEN /\ message_box' = "warning"
                /\ UNCHANGED <<pc, args, locals, downloaded_file, writer, queue, trace,
                               url_entry, progress_bar, status_label, log_text,
                               delivered, app>>
           ELSE /\ progress_bar' = TRUE
                /\ status_label' = "Downloading..."
                /\ \E r \in Requests, f \in SelectedFormats,
                      with_subtitles \in Checked, with_thumbnail \in Checked :
                      StartThread(r, url, f, with_subtitles, with_thumbnail,
                                  ConvertToMp4Default)
                /\ UNCHANGED <<url_entry, log_text, message_box, delivered, app>>

\* YtDlpGui.clear_fields, the Clear button's slot.
ClickClear ==
    /\ app.window
    /\ ~CallerBlocked
    /\ url_entry' = <<>>
    /\ status_label' = "Ready"
    /\ log_text' = ""
    /\ progress_bar' = FALSE
    /\ UNCHANGED <<pc, args, locals, downloaded_file, writer, queue, trace,
                   message_box, delivered, app>>

\* ------------------------------------------------------------------------
\* Program start: python gui.py
\* ------------------------------------------------------------------------

\* The environments the program is started in.
Environments ==
    {Started(y, f) : y \in BOOLEAN,
                     f \in {"ok", "missing", "fails", "noexec", "noprogram"}}

\* OSError(errno, strerror, filename) of a failed exec; str(e) shows the
\* repr of the file name.
PermissionDenied(filename) ==
    [cls |-> "PermissionError",
     msg |-> "[Errno 13] Permission denied: " \o repr(filename)]
ExecFormatError(filename) ==
    [cls |-> "OSError",
     msg |-> "[Errno 8] Exec format error: " \o repr(filename)]

Version == <<"-", "v", "e", "r", "s", "i", "o", "n">>

\* line 195: subprocess.run(['ffmpeg', '-version'], check=True, ...): the
\* exception it raises in the environment, NoExc if none.
ffmpeg_version(ffmpeg) ==
    CASE ffmpeg = "ok" -> NoExc
      [] ffmpeg = "missing" -> FileNotFound(FFMPEG)
      [] ffmpeg = "fails" -> run_check(<<FFMPEG, Version>>, 1, "")
      [] ffmpeg = "noexec" -> PermissionDenied(FFMPEG)
      [] ffmpeg = "noprogram" -> ExecFormatError(FFMPEG)

\* except (subprocess.SubprocessError, FileNotFoundError) (line 196)
CaughtAt196(e) == IsSubprocessError(e) \/ e.cls = "FileNotFoundError"

\* check_dependencies(): the value it returns, True or (False, message), or
\* the exception that leaves it (NoExc if it returns).
check_dependencies(yt_dlp, ffmpeg) ==
    LET e == ffmpeg_version(ffmpeg)
    IN  IF ~yt_dlp
        THEN [exc |-> NoExc,
              value |-> <<FALSE, "yt-dlp is not installed. Please install it with 'pip install yt-dlp'">>]
        ELSE IF e # NoExc /\ CaughtAt196(e)
        THEN [exc |-> NoExc,
              value |-> <<FALSE, "FFmpeg is not installed. Please install it with 'brew install ffmpeg'">>]
        ELSE IF e # NoExc
        THEN [exc |-> e, value |-> <<>>]
        ELSE [exc |-> NoExc, value |-> <<TRUE>>]

\* gui.py lines 1-10: "from main import ..." runs main.py's module body,
\* whose line 5 is "import yt_dlp".  If the module is missing the
\* ModuleNotFoundError reaches the top level: the interpreter prints the
\* traceback and exits with status 1.
ImportModules ==
    /\ app.phase = "start"
    /\ app' = IF app.yt_dlp
              THEN [app EXCEPT !.phase = "imported"]
              ELSE [app EXCEPT !.phase = "exited", !.exit = "1",
                      !.stderr = "ModuleNotFoundError: No module named 'yt_dlp'"]
    /\ UNCHANGED <<pc, args, locals, downloaded_file, writer, queue, trace,
                   url_entry, progress_bar, status_label, log_text, message_box,
                   delivered>>

\* gui.main(), lines 223-237: the dependency check; on failure
\* show_dependency_error opens the critical box and exits with status 1,
\* otherwise the window is constructed and shown and the event loop entered.
\* An exception that leaves check_dependencies leaves main(): the
\* interpreter prints the traceback and exits with status 1.
Main ==
    /\ app.phase = "imported"
    /\ LET deps_check == check_dependencies(app.yt_dlp, app.ffmpeg)
       IN  app' = IF deps_check.exc # NoExc
                  THEN [app EXCEPT !.phase = "exited", !.exit = "1",
                          !.stderr = deps_check.exc.cls \o ": "
                                     \o StrOfException(deps_check.exc)]
                  ELSE IF deps_check.value # <<TRUE>>
                  THEN [app EXCEPT !.phase = "exited",
                                   !.box = deps_check.value[2], !.exit = "1"]
                  ELSE [app EXCEPT !.phase = "running", !.window = TRUE]
    /\ UNCHANGED <<pc, args, locals, downloaded_file, writer, queue, trace,
                   url_entry, progress_bar, status_label, log_text, message_box,
                   delivered>>

\* The steps of the worker thread of r, the downloader making its calls of
\* the progress hook with the payloads P and of the logger with the calls C.
WorkerOf(r, P, C) ==
    \/ LogStart(r)
    \/ ResetRecord(r)
    \/ HookEventOf(r, P)
    \/ HookLog(r)
    \/ HookProcessing(r)
    \/ LoggerEventOf(r, C)
    \/ DownloadReturns(r)
    \/ DownloadRaises(r)
    \/ CheckTranscode(r)
    \/ AfterSleep(r)
    \/ Probe(r)
    \/ Convert(r)
    \/ Remove(r)
    \/ LogConverted(r)
    \/ ConversionFailed(r)
    \/ Complete(r)
    \/ ReportError(r)

Worker(r) == WorkerOf(r, Payloads, LoggerCalls)

Next ==
    \/ \E r \in Requests : start_download(r)
    \/ \E r \in Requests : Worker(r)
    \/ Deliver

Spec == Init /\ [][Next]_vars

\* The downloader alone, the GUI thread left out: the workers read nothing
\* the GUI thread writes, and the queue keeps every signal they emit.
NextWorkers ==
    \/ \E r \in Requests : start_download(r)
    \/ \E r \in Requests : Worker(r)

SpecWorkers == Init /\ [][NextWorkers]_vars

\* The downloader and the event loop, with the downloads of FewPayloads and
\* FewLoggerCalls.
FewWorker(r) == WorkerOf(r, FewPayloads, FewLoggerCalls)

NextDelivery ==
    \/ \E r \in Requests : start_download(r)
    \/ \E r \in Requests : FewWorker(r)
    \/ Deliver

SpecDelivery == Init /\ [][NextDelivery]_vars

NextFewWorkers ==
    \/ \E r \in Requests : start_download(r)
    \/ \E r \in Requests : FewWorker(r)

\* Every started worker keeps running: each blocking call returns or raises
\* and the thread is scheduled again (weak fairness of the worker's steps).
FairSpec ==
    /\ Init /\ [][NextFewWorkers]_vars
    /\ \A r \in Requests : WF_vars(FewWorker(r))

\* The application: the only caller of the downloader is the Download
\* button.  No request has convert_to_mp4, so the workers never get past
\* line 83 into the transcode step.
GuiWorker(r) ==
    \/ LogStart(r)
    \/ ResetRecord(r)
    \/ HookEventOf(r, FewPayloads)
    \/ HookLog(r)
    \/ HookProcessing(r)
    \/ LoggerEventOf(r, FewLoggerCalls)
    \/ DownloadReturns(r)
    \/ DownloadRaises(r)
    \/ CheckTranscode(r)
    \/ Complete(r)
    \/ ReportError(r)

NextGui ==
    \/ EditUrl
    \/ ClickDownload
    \/ ClickClear
    \/ \E r \in Requests : GuiWorker(r)
    \/ Deliver

SpecGui == Init /\ [][NextGui]_vars

\* One request with any format selection and any flags, the GUI thread left
\* out.
NextOptions ==
    \E r \in Requests :
        \/ (\A s \in Requests : r <= s) /\ start_download_any(r)
        \/ Worker(r)

SpecOptions == Init /\ [][NextOptions]_vars

\* The program from its start, in any environment.
InitApp ==
    /\ pc = [r \in Requests |-> "idle"]
    /\ args = [r \in Requests |-> NoArgs]
    /\ locals = [r \in Requests |-> NoLocals]
    /\ downloaded_file = None
    /\ writer = 0
    /\ queue = <<>>
    /\ url_entry = <<>>
    /\ progress_bar = FALSE
    /\ status_label = "Ready"
    /\ log_text = ""
    /\ message_box = ""
    /\ trace = [r \in Requests |-> NoTrace]
    /\ delivered = [r \in Requests |-> NoDelivered]
    /\ app \in Environments

NextApp ==
    \/ ImportModules
    \/ Main
    \/ NextGui

SpecApp == InitApp /\ [][NextApp]_vars

\* ------------------------------------------------------------------------
\* Properties
\* ------------------------------------------------------------------------

TerminalKinds == {"complete", "error"}

\* The signals request r has emitted that are still in the queue, oldest
\* first; all of them when the GUI thread is left out.
SignalsOf(r) == SelectSeq(queue, LAMBDA s : s.req = r)

Terminals(r) == Len(SelectSeq(SignalsOf(r), LAMBDA s : s.kind \in TerminalKinds))

\* C1: every started request emits exactly one terminal notification
\* (on_complete or on_error, never both, never twice); it is the last signal
\* the request emits, and it is emitted only once the worker has left
\* download_video, the downloader call having returned or raised.
C1_OneTerminal ==
    \A r \in Requests :
        /\ Terminals(r) <= 1
        /\ Terminals(r) = 1 =>
              /\ SignalsOf(r)[Len(SignalsOf(r))].kind \in TerminalKinds
              /\ pc[r] = "done"
              /\ trace[r].dl \in {"returned", "raised"}

C1_ExactlyOneTerminalLast ==
    /\ []C1_OneTerminal
    /\ \A r \in Requests : (pc[r] = "L78") ~> (Terminals(r) = 1)

C1_Witness ==
    \E r \in Requests :
        /\ Terminals(r) = 1
        /\ \E i \in DOMAIN SignalsOf(r) : SignalsOf(r)[i].kind = "progress"
        /\ \E s \in Requests : s # r /\ pc[s] \notin {"idle", "done"}

\* C2: within one request the GUI slots receive the signals in the order the
\* worker emitted them, none lost and none twice: the signals of a request
\* still queued are exactly the ones after the delivered ones, in emission
\* order.  Once the request's download_complete or download_error slot has
\* run, no 'downloading' progress signal of that request is left to deliver.
C2_DeliveredInEmissionOrder ==
    \A r \in Requests :
        LET q == SignalsOf(r)
        IN  /\ Len(q) = trace[r].emitted - delivered[r].n
            /\ \A i \in DOMAIN q : q[i].seq = delivered[r].n + i
            /\ delivered[r].term =>
                 \A i \in DOMAIN q :
                    ~(q[i].kind = "progress" /\ q[i].status = "downloading")

C2_Witness ==
    \E r \in Requests :
        /\ delivered[r].term
        /\ delivered[r].n >= 3
        /\ \E s \in Requests : s # r /\ delivered[s].n >= 1 /\ SignalsOf(s) # <<>>

\* C3: when the downloader invocation raises, the exception is caught in
\* download_video (it does not leave the thread), no transcoder process is
\* started and nothing is deleted, and the request ends with on_error called
\* with str(e), on_complete not being called.
C3_DownloaderErrorReported ==
    \A r \in Requests :
        trace[r].dl = "raised" =>
            /\ pc[r] \in {"L133", "done"}
            /\ trace[r].probe = "none" /\ trace[r].conv = "none"
            /\ trace[r].removed = None
            /\ \A i \in DOMAIN SignalsOf(r) : SignalsOf(r)[i].kind # "complete"
            /\ pc[r] = "done" =>
                 /\ Terminals(r) = 1
                 /\ SignalsOf(r)[Len(SignalsOf(r))].kind = "error"
                 /\ SignalsOf(r)[Len(SignalsOf(r))].text = StrOfException(trace[r].exc)

C3_Witness ==
    \E r \in Requests :
        /\ trace[r].dl = "raised" /\ trace[r].raisedBy = "downloader"
        /\ trace[r].exc.cls = "OSError"
        /\ pc[r] = "done"

\* A worker is active from the start of its thread until it has emitted its
\* terminal notification.
Active(r) == pc[r] \notin {"idle", "done", "uncaught"}

\* C4: at most one download worker is active at any moment, whatever the
\* clicks on the Download button.
C4_AtMostOneActiveWorker ==
    Cardinality({r \in Requests : Active(r)}) <= 1

\* From its own reset of the record (line 79) to its terminal notification.
HoldsRecord(r) == Active(r) /\ pc[r] \notin {"L78", "L79"}

\* C5: the record self.downloaded_file is owned by one request: while a
\* request is between its reset of the record and its terminal notification,
\* the last assignment to the record is its own, so that the file it probes,
\* converts and deletes is the one its own 'finished' callback recorded.
C5_RecordOwnedByOneRequest ==
    \A r \in Requests :
        /\ HoldsRecord(r) => writer = r
        /\ trace[r].removed # None => trace[r].removed = trace[r].gate

\* C6: when the transcoder fails (the conversion exits non-zero, or ffprobe
\* or ffmpeg cannot be spawned), the worker deletes nothing, on_complete is
\* not called and the request ends with on_error.
TranscoderFailed(r) ==
    trace[r].conv \in {"failed", "nospawn"} \/ trace[r].probe = "nospawn"

C6_TranscoderFailureKeepsFile ==
    \A r \in Requests :
        TranscoderFailed(r) =>
            /\ trace[r].removed = None
            /\ pc[r] \in {"L127", "L133", "done"}
            /\ \A i \in DOMAIN SignalsOf(r) : SignalsOf(r)[i].kind # "complete"
            /\ pc[r] = "done" =>
                 /\ Terminals(r) = 1
                 /\ SignalsOf(r)[Len(SignalsOf(r))].kind = "error"

C6_Witness ==
    /\ \E r \in Requests : trace[r].conv = "failed" /\ pc[r] = "done"
    /\ \E r \in Requests : trace[r].probe = "nospawn" /\ pc[r] = "done"

\* The files the downloader reports in 'finished' payloads.
FinishedFiles ==
    {d.filename : d \in {p \in Payloads : "filename" \in DOMAIN p}}

InTranscode(r) ==
    \/ pc[r] \in {"L85", "L93", "L105", "L124", "L125", "L127"}
    \/ trace[r].examined # None
    \/ trace[r].probe # "none"
    \/ trace[r].conv # "none"
    \/ trace[r].removed # None

\* C7: the transcode step is entered, and a transcoder process started, only
\* if the downloader call returned without raising, selected_format is
\* 'best', convert_to_mp4 is true and the record holds a file a 'finished'
\* callback recorded; in every other case the worker goes from the
\* downloader's return (line 83) straight to on_complete (line 130).
C7_Gate ==
    \A r \in Requests :
        InTranscode(r) =>
            /\ trace[r].dl = "returned"
            /\ trace[r].entered.selected_format = "best"
            /\ trace[r].entered.convert_to_mp4
            /\ trace[r].gate \in FinishedFiles

C7_Otherwise ==
    \A r \in Requests :
        (/\ pc[r] = "L83"
         /\ pc'[r] # "L83"
         /\ ~(/\ args[r].selected_format = "best"
              /\ args[r].convert_to_mp4
              /\ downloaded_file \in FinishedFiles))
        => (pc'[r] = "L130" /\ ~InTranscode(r)')

C7_TranscodeOnlyWhenWanted == []C7_Gate /\ [][C7_Otherwise]_vars

C7_Witness ==
    /\ \E r \in Requests : trace[r].conv = "ok"
    /\ \E r \in Requests :
          /\ pc[r] = "L130" /\ ~InTranscode(r)
          /\ args[r].selected_format = "best" /\ ~args[r].convert_to_mp4
          /\ downloaded_file \in FinishedFiles

\* The name ends in ".mp4", in any letter case.
EndsInMp4(p) ==
    /\ Len(p) > 4
    /\ p[Len(p) - 3] = "."
    /\ p[Len(p) - 2] \in {"m", "M"}
    /\ p[Len(p) - 1] \in {"p", "P"}
    /\ p[Len(p)] = "4"

\* C8: when the transcode conditions hold (line 83 let the worker in) and
\* the recorded file that passed them already has the extension .mp4, in any
\* letter case, the worker starts neither ffprobe nor ffmpeg, deletes
\* nothing and ends with on_complete.
C8_Mp4Skipped ==
    \A r \in Requests :
        (trace[r].gate # None /\ EndsInMp4(trace[r].gate)) =>
            /\ trace[r].probe = "none" /\ trace[r].conv = "none"
            /\ trace[r].removed = None
            /\ pc[r] \in {"L85", "L130", "done"}
            /\ pc[r] = "done" =>
                 /\ Terminals(r) = 1
                 /\ SignalsOf(r)[Len(SignalsOf(r))].kind = "complete"

\* What holds of C8: the same for the record the worker reads again at line
\* 87, after the settling delay, when that read finds a file.
C8_ExaminedMp4Skipped ==
    \A r \in Requests :
        (trace[r].examined # None /\ EndsInMp4(trace[r].examined)) =>
            /\ trace[r].probe = "none" /\ trace[r].conv = "none"
            /\ trace[r].removed = None
            /\ pc[r] \in {"L130", "done"}
            /\ pc[r] = "done" =>
                 /\ Terminals(r) = 1
                 /\ SignalsOf(r)[Len(SignalsOf(r))].kind = "complete"

IsPrefix(s, t) == Len(s) <= Len(t) /\ s = SubSeq(t, 1, Len(s))

Front(s) == SubSeq(s, 1, Len(s) - 1)

\* C9: in a request whose transcode step runs, the steps come in the order
\* probe, conversion, deletion of the original file, log line, on_complete
\* (on_error ends the request instead when a step before the log line
\* fails); a file is deleted only after the conversion exited successfully,
\* and on_complete after a conversion implies that the original file, the
\* one the conversion read, has been removed.
C9_TranscodeSequence ==
    \A r \in Requests :
        LET steps == trace[r].steps
        IN  /\ \/ IsPrefix(steps, <<"probe", "convert", "remove", "log", "on_complete">>)
               \/ steps = <<"on_complete">>
               \/ /\ steps # <<>>
                  /\ steps[Len(steps)] = "on_error"
                  /\ IsPrefix(Front(steps), <<"probe", "convert">>)
            /\ trace[r].removed # None => trace[r].conv = "ok"
            /\ (trace[r].conv = "ok" /\ steps # <<>>
                  /\ steps[Len(steps)] = "on_complete")
               => trace[r].removed = trace[r].cmd.source

\* The value reported for a field of a 'downloading' payload.
Reported(d, key) == IF key \in DOMAIN d THEN d[key] ELSE "N/A"

\* The second half of C10 alone: the 'N/A' defaults of a 'downloading' update.
C10_DefaultsReported ==
    \A i \in DOMAIN queue :
        (queue[i].kind = "progress" /\ queue[i].status = "downloading") =>
           \E d \in Payloads :
              /\ "status" \in DOMAIN d /\ d.status = "downloading"
              /\ queue[i].data = <<Reported(d, "_percent_str"),
                                   Reported(d, "_speed_str"),
                                   Reported(d, "_eta_str")>>

\* C10: progress_hook never raises, whatever the payload (a payload with
\* missing fields only loses its own update and the request goes on to its
\* normal outcome), and every 'downloading' update the worker emits carries
\* the payload's percent, speed and ETA, each 'N/A' where it is missing.
C10_HookNeverRaises ==
    /\ \A r \in Requests : trace[r].raisedBy # "progress_hook"
    /\ C10_DefaultsReported

\* The remediation messages of the dependencies the environment lacks.
Remediations ==
    (IF app.yt_dlp THEN {}
     ELSE {"yt-dlp is not installed. Please install it with 'pip install yt-dlp'"})
    \cup
    (IF app.ffmpeg = "ok" THEN {}
     ELSE {"FFmpeg is not installed. Please install it with 'brew install ffmpeg'"})

\* C11: started where yt_dlp is not importable or ffmpeg is not invocable,
\* the program never constructs or shows the main window, and when it has
\* exited its status is non-zero and it has reported the remediation message
\* of a missing dependency.
C11_DependencyPreflight ==
    Remediations # {} =>
        /\ ~app.window
        /\ app.phase # "running"
        /\ app.phase = "exited" =>
              /\ app.exit \notin {"", "0"}
              /\ app.box \in Remediations

\* What holds of C11: with yt_dlp importable and ffmpeg absent from the PATH
\* or exiting non-zero, no window is shown and the program exits non-zero
\* with the remediation message.
C11_FfmpegPreflight ==
    (app.yt_dlp /\ app.ffmpeg \in {"missing", "fails"}) =>
        /\ ~app.window
        /\ app.phase # "running"
        /\ app.phase = "exited" =>
              /\ app.exit \notin {"", "0"}
              /\ app.box \in Remediations

\* The worker is inside the downloader call (line 81), the settling delay
\* (line 85), ffprobe (line 93) or ffmpeg (line 117).
Blocked(r) == pc[r] \in {"L81", "H165", "H166", "L85", "L93", "L105"}

C12_GuiCanStep ==
    (\E r \in Requests : Blocked(r)) =>
        /\ ENABLED ClickDownload
        /\ ENABLED ClickClear
        /\ ENABLED EditUrl
        /\ queue # <<>> => ENABLED Deliver

C12_StartReturnsAtOnce ==
    \A r \in Requests :
        (pc[r] = "idle" /\ pc'[r] # "idle") =>
            /\ pc'[r] = "L78"
            /\ trace'[r].dl = "none"
            /\ ~CallerBlocked'

\* C12: start_download does not block its caller: the step that starts a
\* worker ends with the worker before its first statement and the caller
\* free, and in every state where a worker is blocked in the downloader, the
\* settling delay or the transcoder the GUI thread can take steps (a click
\* on Download or Clear, an edit of the URL, the delivery of a queued
\* notification).
C12_StartDoesNotBlock == []C12_GuiCanStep /\ [][C12_StartReturnsAtOnce]_vars

C12_Witness ==
    /\ \E r \in Requests : pc[r] = "L105"
    /\ \E r \in Requests : pc[r] = "L81" /\ delivered[r].n > 0
    /\ queue # <<>>

\* The reference post-process steps.
AudioExtraction ==
    [key |-> "FFmpegExtractAudio", preferredcodec |-> "mp3", preferredquality |-> "192"]
ThumbnailConversion == [key |-> "FFmpegThumbnailsConvertor", format |-> "jpg"]

\* dict[key] is present and equals value.
Has(d, key, value) == key \in DOMAIN d /\ d[key] = value

\* C13: for every format selection and every combination of withSubtitles
\* and withThumbnail the option set download_video builds matches the
\* reference: the format string of mp3, mp4 and webm, none for best; the two
\* subtitle flags set iff withSubtitles; and the post-process list is the
\* audio extraction (only if mp3) followed by the thumbnail conversion (only
\* if withThumbnail).
C13_OptionTable ==
    \A r \in Requests :
        pc[r] \notin {"idle", "done"} =>
            LET a == args[r]
                o == locals[r].ydl_opts
            IN  /\ a.selected_format = "mp3" => Has(o, "format", "bestaudio/best")
                /\ a.selected_format = "mp4" =>
                      Has(o, "format",
                          "bestvideo[ext=mp4]+bestaudio[ext=m4a]/best[ext=mp4]/best")
                /\ a.selected_format = "webm" =>
                      Has(o, "format",
                          "bestvideo[ext=webm]+bestaudio[ext=webm]/best[ext=webm]/best")
                /\ a.selected_format = "best" => "format" \notin DOMAIN o
                /\ Has(o, "writesubtitles", TRUE) <=> a.with_subtitles
                /\ Has(o, "writeautomaticsub", TRUE) <=> a.with_subtitles
                /\ (IF "postprocessors" \in DOMAIN o THEN o.postprocessors ELSE <<>>)
                     = (IF a.selected_format = "mp3" THEN <<AudioExtraction>> ELSE <<>>)
                       \o (IF a.with_thumbnail THEN <<ThumbnailConversion>> ELSE <<>>)

C13_Witness ==
    \E r \in Requests :
        /\ pc[r] = "L81"
        /\ args[r].selected_format = "mp3"
        /\ args[r].with_thumbnail /\ args[r].with_subtitles
        /\ Len(locals[r].ydl_opts.postprocessors) > 1

Elements(l) == {l[i] : i \in DOMAIN l}

\* The video-reencode variant: libx264, ultrafast preset, audio copied.
IsReencode(argv) ==
    /\ \E i \in DOMAIN argv : i < Len(argv) /\ argv[i] = OptCV /\ argv[i + 1] = Libx264
    /\ \E i \in DOMAIN argv : i < Len(argv) /\ argv[i] = OptPreset /\ argv[i + 1] = Ultrafast
    /\ \E i \in DOMAIN argv : i < Len(argv) /\ argv[i] = OptCA /\ argv[i + 1] = Copy
    /\ OptVN \notin Elements(argv)

\* The audio-only variant: video stripped, audio copied.
IsAudioOnly(argv) ==
    /\ OptVN \in Elements(argv)
    /\ \E i \in DOMAIN argv : i < Len(argv) /\ argv[i] = OptCA /\ argv[i + 1] = Copy
    /\ OptCV \notin Elements(argv)

\* The worker has run a conversion command.
Converted(r) == trace[r].conv \in {"ok", "failed"}

\* C14: the conversion command a worker runs is the video-reencode variant
\* exactly when the probe reported a video stream in the command's source
\* file, and the audio-only variant exactly when that source file has no
\* video stream.
C14_CommandVariant ==
    \A r \in Requests :
        Converted(r) =>
            LET cmd == trace[r].cmd
            IN  /\ IsReencode(cmd.argv) <=>
                      (trace[r].reported /\ trace[r].probed = cmd.source)
                /\ IsAudioOnly(cmd.argv) <=> cmd.source \notin VideoFiles

\* What holds of C14: the variant follows what the probe printed, whatever
\* file it was run on and whether or not it succeeded.
C14_VariantFollowsProbe ==
    \A r \in Requests :
        Converted(r) =>
            /\ IsReencode(trace[r].cmd.argv) <=> trace[r].reported
            /\ IsAudioOnly(trace[r].cmd.argv) <=> ~trace[r].reported

\* The text holds the diagnostic: it is the diagnostic behind one of the
\* prefixes the worker puts in front of a message.
Contains(text, diagnostic) ==
    \E prefix \in {"", "ffmpeg conversion failed: ", "Error: "} :
        \E suffix \in {"", "\n"} : text = prefix \o diagnostic \o suffix

\* C15: when the conversion exits non-zero or cannot be spawned, the message
\* passed to on_error contains the diagnostic captured from the transcoder:
\* what ffmpeg wrote to the stderr pipe, or the error of the failed spawn.
C15_DiagnosticReported ==
    \A r \in Requests :
        (trace[r].conv \in {"failed", "nospawn"} /\ pc[r] = "done") =>
            LET last == SignalsOf(r)[Len(SignalsOf(r))]
            IN  /\ last.kind = "error"
                /\ trace[r].conv = "failed" => Contains(last.text, trace[r].stderr)
                /\ trace[r].conv = "nospawn" =>
                      Contains(last.text, FileNotFound(FFMPEG).msg)

\* What holds of C15: a conversion that could not be spawned is reported
\* with the error of the spawn.
C15_SpawnFailureReported ==
    \A r \in Requests :
        (trace[r].conv = "nospawn" /\ pc[r] = "done") =>
            /\ SignalsOf(r)[Len(SignalsOf(r))].kind = "error"
            /\ Contains(SignalsOf(r)[Len(SignalsOf(r))].text, FileNotFound(FFMPEG).msg)

\* The payloads with status 'finished'.
FinishedPayloads ==
    {d \in Payloads : "status" \in DOMAIN d /\ d.status = "finished"}

\* b is the base name of path p: what follows its last "/".
IsBaseName(b, p) ==
    /\ Len(b) <= Len(p)
    /\ b = SubSeq(p, Len(p) - Len(b) + 1, Len(p))
    /\ "/" \notin Elements(b)
    /\ Len(b) < Len(p) => p[Len(p) - Len(b)] = "/"

\* The signals a step appends to the queue.
NewSignals == SubSeq(queue', Len(queue) + 1, Len(queue'))

\* The step is the call progress_hook(d) on the worker thread of r.
HookStep(r, d) == HookEventOf(r, {d})

\* The worker of r leaves the line.
Leaves(r, line) == pc[r] = line /\ pc'[r] # line

\* The one signal the step emits is the log line naming the base name of f.
LogsBaseName(r, f) ==
    /\ Len(NewSignals) = 1
    /\ NewSignals[1].req = r
    /\ NewSignals[1].kind = "log"
    /\ \E n \in 1..Len(f) :
          /\ IsBaseName(SubSeq(f, n, Len(f)), f)
          /\ NewSignals[1].text = "Download finished: " \o Text(SubSeq(f, n, Len(f)))

\* The hook's statements on a 'finished' payload, up to its last one: the
\* call records the file path and emits nothing yet, and the next statement
\* of the worker emits the log line naming that file by its base name.
RecordedAndLogged ==
    \A r \in Requests :
        /\ \A d \in FinishedPayloads :
              HookStep(r, d) =>
                  /\ downloaded_file' = d.filename
                  /\ locals'[r].filename = d.filename
                  /\ NewSignals = <<>>
                  /\ pc'[r] = "H165"
        /\ Leaves(r, "H165") =>
              /\ LogsBaseName(r, locals[r].filename)
              /\ pc'[r] = "H166"
              /\ UNCHANGED downloaded_file

\* C16 as stated: on a 'finished' payload the hook records the file path,
\* emits one log line naming the file by its base name, and emits a Finished
\* progress event that carries the file.
C16_FinishedEventCarriesFile ==
    [][/\ RecordedAndLogged
       /\ \A r \in Requests :
             Leaves(r, "H166") =>
                 /\ Len(NewSignals) = 1
                 /\ NewSignals[1].req = r
                 /\ NewSignals[1].kind = "progress"
                 /\ NewSignals[1].status = "finished"
                 /\ NewSignals[1].data = locals[r].filename
                 /\ pc'[r] = "L81"]_vars

\* C16, amended: on a 'finished' payload the hook records the file path,
\* emits one log line naming the file by its base name, and then emits a
\* progress notification with status 'processing' and no data; the file
\* path is carried by no notification.
C16_FinishedRecordedAndProcessing ==
    [][/\ RecordedAndLogged
       /\ \A r \in Requests :
             Leaves(r, "H166") =>
                 /\ Len(NewSignals) = 1
                 /\ NewSignals[1].req = r
                 /\ NewSignals[1].kind = "progress"
                 /\ NewSignals[1].status = "processing"
                 /\ NewSignals[1].data = None
                 /\ pc'[r] = "L81"]_vars

\* A worker has returned from its hook after another worker's hook wrote the
\* record between its own line 164 and its line 165.
C16_Witness ==
    \E r \in Requests :
        /\ pc[r] = "L81" /\ writer # r
        /\ downloaded_file = PathMp4
        /\ Len(SignalsOf(r)) = 3
        /\ SignalsOf(r)[2].text = "Download finished: v.webm"
        /\ SignalsOf(r)[3].status = "processing"
        /\ \E i \in DOMAIN queue :
              /\ i < Len(queue) - 1
              /\ queue[i].text = "Download finished: w.MP4"
              /\ queue[i].req # r

\* The text is empty or holds only whitespace.
IsBlank(s) == \A i \in DOMAIN s : s[i] \in Whitespace

\* C17: a click on Download while the URL field is empty or holds only
\* whitespace starts no worker and hands nothing to the downloader, and
\* leaves the progress bar, the status label and the log as they were.
C17_BlankUrlClickFrame ==
    [][(IsBlank(url_entry) /\ ClickDownload) =>
          UNCHANGED <<pc, args, locals, downloaded_file, writer, queue, trace,
                      progress_bar, status_label, log_text>>]_vars

C17_Witness ==
    /\ message_box = "warning"
    /\ url_entry = <<" ", "\r">>
    /\ progress_bar
    /\ \E r \in Requests : pc[r] = "L81"
    /\ \E r \in Requests : pc[r] = "idle"

\* C18: every request the Download button starts has convert_to_mp4 false,
\* so that whatever the clicks and the format selected no worker enters the
\* transcode step (line 85 and after) and no probe or conversion is started.
C18_GuiNeverTranscodes ==
    \A r \in Requests :
        /\ pc[r] \notin {"idle", "done"} => ~args[r].convert_to_mp4
        /\ ~InTranscode(r)
        /\ trace[r].entered = NoArgs

C18_Witness ==
    \E r \in Requests :
        /\ pc[r] = "L130"
        /\ args[r].selected_format = "best"
        /\ writer = r
        /\ downloaded_file \in FinishedFiles

\* No request is in flight and every emitted notification has been delivered.
AtRest == queue = <<>> /\ \A r \in Requests : ~Active(r)

\* C19: whenever no request is in flight and every notification has been
\* delivered, the progress bar is hidden and the status label shows 'Ready',
\* 'Download complete!' or 'Error occurred'.
C19_RestingGui ==
    AtRest =>
        /\ ~progress_bar
        /\ status_label \in {"Ready", "Download complete!", "Error occurred"}

C19_Witness ==
    /\ AtRest
    /\ \A r \in Requests : pc[r] = "done" /\ delivered[r].term
    /\ status_label = "Ready"
    /\ message_box = "critical"

====
